---- MODULE Spec2Model ----
(***************************************************************************)
(* State-machine model of lib/utils.py of SqueezeMeta: the ORF-table       *)
(* aggregation engine (parse_orf_table with its helpers update_dicts, tpm  *)
(* and normalize_abunds), the taxonomy string parser (parse_tax_string)    *)
(* and the tax / contig / bin table readers.                               *)
(*                                                                         *)
(* Text is modelled as a sequence of atoms: a separator character (";",    *)
(* "_", "*", a tab) is an atom of its own, a run of other characters       *)
(* (a name, a digit) is one atom.  Splitting, stripping and replacing are  *)
(* computed on these sequences the way the Python string methods do.       *)
(*                                                                         *)
(* numpy float64 values are kept as exact fractions n/d (d = 0 encodes     *)
(* inf and nan), so that the even split of a row over its function IDs is  *)
(* not blurred by rounding.                                                *)
(***************************************************************************)
EXTENDS Integers, Sequences, FiniteSets, TLC

VARIABLES
  \* ---- parse_orf_table: arguments
  nokegg, nocog, nopfam, trusted_only, ignore_unclassified_fun, orfSet,
  \* ---- parse_orf_table: locals
  consumed,   \* the data lines read from infile so far, as split into cells
  orfs, kegg, cog, pfam, custom,
  pc,         \* "loop" while lines are read, "returned" after the return
  \* ---- parse_tax_string / parse_tax_table / parse_contig_table / parse_bin_table
  call,       \* the function that is running
  taxString,  \* argument of a direct parse_tax_string call
  ret,        \* what that call returned: <<>> before, then <<[taxList, taxList_wranks]>>
  tlines,     \* the table lines read so far (raw text)
  ent_tax, ent_tax_wranks, ent_abunds,   \* the three dictionaries a reader fills
  tpc         \* "start", "loop", "returned" or "raised" (an uncaught ValueError)

orfvars == <<nokegg, nocog, nopfam, trusted_only, ignore_unclassified_fun, orfSet,
             consumed, orfs, kegg, cog, pfam, custom, pc>>
taxvars == <<call, taxString, ret, tlines, ent_tax, ent_tax_wranks, ent_abunds, tpc>>
vars == <<orfvars, taxvars>>

-----------------------------------------------------------------------------
(* Bounds of the model *)

\* data lines read from one ORF table
MaxRows == 2
\* semicolon-separated tokens of a taxonomy string given to parse_tax_string
MaxTokens == 3
\* data lines read from one tax / contig / bin table
MaxTaxRows == 2

-----------------------------------------------------------------------------
(* numpy float64 arithmetic on non-negative values, exact *)

RECURSIVE GCD(_, _)
GCD(a, b) == IF b = 0 THEN a ELSE GCD(b, a % b)

\* n/d in lowest terms; 1/0 is inf, 0/0 is nan
Num(n, d) ==
  IF d = 0 THEN [n |-> IF n = 0 THEN 0 ELSE 1, d |-> 0]
  ELSE LET g == GCD(n, d) IN [n |-> n \div g, d |-> d \div g]

Int2Num(i) == [n |-> i, d |-> 1]
NaN == [n |-> 0, d |-> 0]
Inf == [n |-> 1, d |-> 0]
Zero == [n |-> 0, d |-> 1]

isnan(x) == x = NaN

FAdd(x, y) ==
  IF isnan(x) \/ isnan(y) THEN NaN
  ELSE IF x.d = 0 \/ y.d = 0 THEN Inf
  ELSE Num(x.n * y.d + y.n * x.d, x.d * y.d)

\* common factor cancelled before a product is formed (keeps products small)
Cancel(a, b) == IF a = 0 /\ b = 0 THEN 1 ELSE GCD(a, b)

\* x * y: inf * 0 = nan
FMul(x, y) ==
  LET g1 == Cancel(x.n, y.d)
      g2 == Cancel(y.n, x.d)
  IN Num((x.n \div g1) * (y.n \div g2), (x.d \div g2) * (y.d \div g1))

\* x / y with numpy's divide='ignore', invalid='ignore': 0/0 = nan, x/0 = inf
FDiv(x, y) == FMul(x, [n |-> y.d, d |-> y.n])

\* elementwise operations on numpy arrays (one slot per sample)
VAdd(u, v) == [s \in DOMAIN u |-> FAdd(u[s], v[s])]
VDiv(u, v) == [s \in DOMAIN u |-> FDiv(u[s], v[s])]
VDivScalar(u, k) == [s \in DOMAIN u |-> FDiv(u[s], Int2Num(k))]
VMulScalar(k, u) == [s \in DOMAIN u |-> FMul(Int2Num(k), u[s])]

\* defaultdict(int): d[k] += v, where 0 + v = v for a key not yet present
DictAdd(d, k, v) ==
  IF k \in DOMAIN d THEN [d EXCEPT ![k] = VAdd(@, v)] ELSE d @@ (k :> v)

\* d[k] = v
DictSet(d, k, v) ==
  IF k \in DOMAIN d THEN [d EXCEPT ![k] = v] ELSE d @@ (k :> v)

EmptyDict == <<>>

-----------------------------------------------------------------------------
(* Python string methods on atom sequences *)

\* s.replace(ch, '')
RECURSIVE Remove(_, _)
Remove(s, ch) ==
  IF s = <<>> THEN <<>>
  ELSE IF Head(s) = ch THEN Remove(Tail(s), ch)
  ELSE <<Head(s)>> \o Remove(Tail(s), ch)

RECURSIVE LStrip(_, _)
LStrip(s, chars) ==
  IF s # <<>> /\ Head(s) \in chars THEN LStrip(Tail(s), chars) ELSE s

RECURSIVE RStrip(_, _)
RStrip(s, chars) ==
  IF s # <<>> /\ s[Len(s)] \in chars THEN RStrip(SubSeq(s, 1, Len(s) - 1), chars) ELSE s

\* s.strip(chars)
Strip(s, chars) == RStrip(LStrip(s, chars), chars)

\* position of the first atom ch of s, 0 if there is none
RECURSIVE Find(_, _, _)
Find(s, ch, i) ==
  IF i > Len(s) THEN 0 ELSE IF s[i] = ch THEN i ELSE Find(s, ch, i + 1)

\* s.split(ch): always at least one piece, '' included
RECURSIVE Split(_, _)
Split(s, ch) ==
  LET i == Find(s, ch, 1) IN
  IF i = 0 THEN <<s>>
  ELSE <<SubSeq(s, 1, i - 1)>> \o Split(SubSeq(s, i + 1, Len(s)), ch)

\* s.split(ch, 1): one or two pieces
Split1(s, ch) ==
  LET i == Find(s, ch, 1) IN
  IF i = 0 THEN <<s>>
  ELSE <<SubSeq(s, 1, i - 1), SubSeq(s, i + 1, Len(s))>>

\* sep.join(pieces)
RECURSIVE Join(_, _)
Join(pieces, sep) ==
  IF pieces = <<>> THEN <<>>
  ELSE IF Len(pieces) = 1 THEN pieces[1]
  ELSE pieces[1] \o <<sep>> \o Join(Tail(pieces), sep)

DigitVal == [c \in {"0", "1", "2", "3", "4", "5", "6", "7", "8", "9"} |->
  CASE c = "0" -> 0 [] c = "1" -> 1 [] c = "2" -> 2 [] c = "3" -> 3 [] c = "4" -> 4
    [] c = "5" -> 5 [] c = "6" -> 6 [] c = "7" -> 7 [] c = "8" -> 8 [] c = "9" -> 9]

\* int(s) for a string of decimal digits
RECURSIVE int(_)
int(s) ==
  IF Len(s) = 1 THEN DigitVal[s[1]]
  ELSE 10 * int(SubSeq(s, 1, Len(s) - 1)) + DigitVal[s[Len(s)]]

-----------------------------------------------------------------------------
(* The ORF table: header and data lines *)

Range(s) == {s[i] : i \in DOMAIN s}

\* the name of the one custom annotation method passed as custom_methods
custom_methods == << <<"MYDB">> >>

\* header = infile.readline().strip().split('\t'); columns ordered as SqueezeMeta
\* writes them: identifiers, annotations, then the per-sample columns
header ==
  << <<"ORF ID">>, <<"Length NT">>,
     <<"KEGG ID">>, <<"KEGGFUN">>, <<"KEGGPATH">>,
     <<"COG ID">>, <<"COGFUN">>, <<"COGPATH">>,
     <<"PFAM">>, <<"MYDB">>, <<"MYDB", " ", "NAME">>,
     <<"Coverage", " ", "S1">>, <<"Coverage", " ", "S2">>,
     <<"Raw read count", " ", "S1">>, <<"Raw read count", " ", "S2">>,
     <<"Raw base count", " ", "S1">>, <<"Raw base count", " ", "S2">> >>

\* idx = {h: i for i, h in enumerate(header)}
idx(h) == CHOOSE i \in DOMAIN header : header[i] = h

\* [h for h in header if label in h]
ColumnsWith(label) == SelectSeq(header, LAMBDA h : label \in Range(h))

samples == ColumnsWith("Raw read count")
samplesBases == ColumnsWith("Raw base count")
samplesCov == ColumnsWith("Coverage")

\* s.replace('Raw read count ', '') for each sample column
sampleNames == [i \in DOMAIN samples |-> Remove(Remove(samples[i], "Raw read count"), " ")]

\* the per-row arrays of parse_orf_table
abundances(line) == [s \in DOMAIN samples |-> Int2Num(int(line[idx(samples[s])]))]
bases(line) == [s \in DOMAIN samplesBases |-> Int2Num(int(line[idx(samplesBases[s])]))]
\* float(cell): the coverage cells of the model are whole numbers
coverages(line) == [s \in DOMAIN samplesCov |-> Int2Num(int(line[idx(samplesCov[s])]))]
\* (abundances > 0).astype(int)
copies(line) == [s \in DOMAIN samples |-> IF abundances(line)[s].n > 0 THEN Int2Num(1) ELSE Zero]
\* length = int(length) if length else 0
LengthOf(line) ==
  LET length == line[idx(<<"Length NT">>)] IN IF length # <<>> THEN int(length) ELSE 0
\* lengths = length * copies
lengths(line) == VMulScalar(LengthOf(line), copies(line))

-----------------------------------------------------------------------------
(* parse_orf_table: helper functions *)

\* {res: defaultdict(int) for res in (...)} with 'info': {}
NewFunDict ==
  [abundances |-> EmptyDict, bases |-> EmptyDict, coverages |-> EmptyDict,
   copies |-> EmptyDict, lengths |-> EmptyDict, info |-> EmptyDict]

\* AddFun with the abundance of a row given whole to each of its n funs
AddFunUnsplit(funDict, fun, n, line) ==
  [funDict EXCEPT
     !.abundances = DictAdd(@, fun, abundances(line)),
     !.bases      = DictAdd(@, fun, VDivScalar(bases(line), n)),
     !.coverages  = DictAdd(@, fun, VDivScalar(coverages(line), n)),
     !.copies     = DictAdd(@, fun, copies(line)),
     !.lengths    = DictAdd(@, fun, VDivScalar(lengths(line), n))]

\* AddFun with the copies split like the other statistics
AddFunSplitCopies(funDict, fun, n, line) ==
  [funDict EXCEPT
     !.abundances = DictAdd(@, fun, VDivScalar(abundances(line), n)),
     !.bases      = DictAdd(@, fun, VDivScalar(bases(line), n)),
     !.coverages  = DictAdd(@, fun, VDivScalar(coverages(line), n)),
     !.copies     = DictAdd(@, fun, VDivScalar(copies(line), n)),
     !.lengths    = DictAdd(@, fun, VDivScalar(lengths(line), n))]

\* the loop body of update_dicts for one fun of a cell holding n funs
AddFun(funDict, fun, n, line) ==
  [funDict EXCEPT
     !.abundances = DictAdd(@, fun, VDivScalar(abundances(line), n)),
     !.bases      = DictAdd(@, fun, VDivScalar(bases(line), n)),
     !.coverages  = DictAdd(@, fun, VDivScalar(coverages(line), n)),
     !.copies     = DictAdd(@, fun, copies(line)),
     !.lengths    = DictAdd(@, fun, VDivScalar(lengths(line), n))]

Unclassified == <<"Unclassified">>

\* for fun in funs: ... (funs[i..])
RECURSIVE AddFuns(_, _, _, _)
AddFuns(funDict, funs, i, line) ==
  IF i > Len(funs) THEN funDict
  ELSE IF ignore_unclassified_fun /\ funs[i] = Unclassified
       THEN AddFuns(funDict, funs, i + 1, line)
       ELSE AddFuns(AddFun(funDict, funs[i], Len(funs), line), funs, i + 1, line)

\* the condition under which update_dicts passes: a non-empty cell whose last
\* character is not the asterisk
NotTrusted(cell) == cell # <<>> /\ cell[Len(cell)] # "*"

\* funs = line[funIdx].replace('*',''); ['Unclassified'] if not funs else funs.strip(';').split(';')
FunsOf(cell) ==
  LET funs == Remove(cell, "*")
  IN IF funs = <<>> THEN <<Unclassified>> ELSE Split(Strip(funs, {";"}), ";")

\* update_dicts without the test of the trailing asterisk
update_dicts_all(funDict, funIdx, trusted, line) ==
  AddFuns(funDict, FunsOf(line[funIdx]), 1, line)

update_dicts(funDict, funIdx, trusted, line) ==
  IF trusted /\ NotTrusted(line[funIdx]) THEN funDict
  ELSE AddFuns(funDict, FunsOf(line[funIdx]), 1, line)

\* sum of the arrays of a dictionary, starting from the int 0
RECURSIVE SumDict(_, _)
SumDict(d, keys) ==
  IF keys = {} THEN [s \in DOMAIN samples |-> Zero]
  ELSE LET k == CHOOSE k \in keys : TRUE IN VAdd(d[k], SumDict(d, keys \ {k}))

normalize_abunds(abundDict, scale) ==
  LET abundPerSample == SumDict(abundDict, DOMAIN abundDict)
  IN [row \in DOMAIN abundDict |-> VDiv(VMulScalar(scale, abundDict[row]), abundPerSample)]

\* rpk[isnan(rpk)] = 0
RemoveNaNs(rpk) == [s \in DOMAIN rpk |-> IF isnan(rpk[s]) THEN Zero ELSE rpk[s]]

tpm(funDict) ==
  LET fun_avgLengths == [fun \in DOMAIN funDict.lengths |->
                           VDiv(funDict.lengths[fun], funDict.copies[fun])]
      fun_rpk == [fun \in DOMAIN funDict.bases |->
                    RemoveNaNs(VDiv(funDict.bases[fun], VDivScalar(fun_avgLengths[fun], 1000)))]
  IN normalize_abunds(fun_rpk, 1000000)

-----------------------------------------------------------------------------
(* parse_orf_table: inputs *)

\* line.strip().split('\t') of a data line: one cell per header column.  The
\* function-name and pathway cells are filled when the ID cell is.
MkLine(orf, length, ann, smp) ==
  << orf, length,
     ann[1], IF ann[1] = <<>> THEN <<>> ELSE <<"kfun">>, IF ann[1] = <<>> THEN <<>> ELSE <<"kpath">>,
     ann[2], IF ann[2] = <<>> THEN <<>> ELSE <<"cfun">>, IF ann[2] = <<>> THEN <<>> ELSE <<"cpath">>,
     ann[3], ann[4], IF ann[4] = <<>> THEN <<>> ELSE <<"xname">>,
     smp[1][1], smp[1][2], smp[2][1], smp[2][2], smp[3][1], smp[3][2] >>

\* 'Length NT' cells: missing (an rRNA), zero, and a real length
NoLength == <<>>
ZeroLength == <<"0">>
Length300 == <<"3", "0", "0">>
\* the annotation cells of a line, <<KEGG ID, COG ID, PFAM, MYDB>>: nothing
\* annotated; confirmed calls with two KEGG IDs and the RecA/RadA COG; calls the
\* bestaver algorithm did not confirm; three KEGG IDs with one trailing asterisk
NotAnnotated == << <<>>, <<>>, <<>>, <<>> >>
Confirmed ==
  << <<"K00001", "*", ";", "K00002", "*">>, <<"COG0468", "*">>,
     <<"PF00001", ";", "PF00002">>, <<"X1", "*">> >>
Unconfirmed == << <<"K00001">>, <<"COG0468">>, <<"PF00001">>, <<"X1">> >>
ThreeIds ==
  << <<"K00001", ";", "K00002", ";", "K00003", "*">>, <<"COG0001", "*">>,
     <<>>, <<"X1", ";", "X2", "*">> >>
\* the per-sample cells of a line: <<coverages, read counts, base counts>>
NoReads == << << <<"0">>, <<"0">> >>, << <<"0">>, <<"0">> >>, << <<"0">>, <<"0">> >> >>
OneSample == << << <<"2">>, <<"0">> >>, << <<"1", "0">>, <<"0">> >>, << <<"5">>, <<"0">> >> >>
TwoSamples == << << <<"1">>, <<"3">> >>, << <<"4">>, <<"6">> >>, << <<"2">>, <<"3">> >> >>

\* the data lines a table of the model is made of
InputLines ==
  { MkLine(<<"orf1">>, Length300, Confirmed, OneSample),
    MkLine(<<"orf1">>, Length300, ThreeIds, OneSample),
    MkLine(<<"orf1">>, Length300, NotAnnotated, TwoSamples),
    MkLine(<<"orf1">>, Length300, Unconfirmed, TwoSamples),
    MkLine(<<"orf2">>, Length300, ThreeIds, TwoSamples),
    MkLine(<<"orf2">>, Length300, Confirmed, NoReads),
    MkLine(<<"orf1">>, NoLength, Confirmed, OneSample),
    MkLine(<<"orf2">>, ZeroLength, Unconfirmed, TwoSamples) }

\* orfSet: None, or a set of ORF names (possibly empty)
None == [supplied |-> FALSE, members |-> {}]
OrfSets == {None} \cup {[supplied |-> TRUE, members |-> m] : m \in {{}, {<<"orf1">>}}}

\* Python truth value of orfSet
Truthy(set) == set.supplied /\ set.members # {}

-----------------------------------------------------------------------------
(* parse_orf_table *)

\* the most recent line read
line == consumed[Len(consumed)]

\* ID = line[idx[idCol]].replace('*', ''); if ID: funDict['info'][ID] = [...]
\* followed by update_dicts(funDict, idx[idCol], trusted)
Annotate(funDict, idCol, infoCols, trusted, l) ==
  LET ID == Remove(l[idx(idCol)], "*")
      info == [i \in DOMAIN infoCols |-> l[idx(infoCols[i])]]
      registered == IF ID # <<>> THEN [funDict EXCEPT !.info = DictSet(@, ID, info)]
                    ELSE funDict
  IN update_dicts(registered, idx(idCol), trusted, l)

\* the record of one ORF, stored (not added) under its name
StoreOrf(d, l) ==
  LET orf == l[idx(<<"ORF ID">>)] IN
  [abundances |-> DictSet(d.abundances, orf, abundances(l)),
   bases      |-> DictSet(d.bases, orf, bases(l)),
   coverages  |-> DictSet(d.coverages, orf, coverages(l)),
   copies     |-> DictSet(d.copies, orf, copies(l)),
   lengths    |-> DictSet(d.lengths, orf, lengths(l))]

\* whether the loop body leaves the line before any accumulator is touched
SkippedByOrfSet(l) == Truthy(orfSet) /\ l[idx(<<"ORF ID">>)] \notin orfSet.members
\* SkippedByLength that drops a line only when the cell is empty
SkippedByMissingLength(l) == l[idx(<<"Length NT">>)] = <<>>
SkippedByLength(l) == LengthOf(l) = 0

\* one iteration of "for line in infile"
parse_orf_table_line(l) ==
  /\ pc = "loop"
  /\ Len(consumed) < MaxRows
  /\ consumed' = Append(consumed, l)
  /\ IF SkippedByOrfSet(l) \/ SkippedByLength(l)
     THEN UNCHANGED <<orfs, kegg, cog, pfam, custom>>
     ELSE /\ orfs' = StoreOrf(orfs, l)
          /\ kegg' = IF ~nokegg
                     THEN Annotate(kegg, <<"KEGG ID">>, << <<"KEGGFUN">>, <<"KEGGPATH">> >>,
                                   trusted_only, l)
                     ELSE kegg
          /\ cog' = IF ~nocog
                    THEN Annotate(cog, <<"COG ID">>, << <<"COGFUN">>, <<"COGPATH">> >>,
                                  trusted_only, l)
                    ELSE cog
          \* PFAM are not subjected to the bestaver algorithm
          /\ pfam' = IF ~nopfam THEN update_dicts(pfam, idx(<<"PFAM">>), FALSE, l) ELSE pfam
          /\ custom' = [m \in DOMAIN custom |->
                          Annotate(custom[m], m, <<m \o <<" ", "NAME">> >>, trusted_only, l)]
  /\ UNCHANGED <<nokegg, nocog, nopfam, trusted_only, ignore_unclassified_fun, orfSet, pc>>
  /\ UNCHANGED taxvars

RecAKey == <<"COG0468">>

\* "if not nocog and 'COG0468' in cog['coverages']"
RecAPresent == ~nocog /\ RecAKey \in DOMAIN cog.coverages

WithTpm(funDict) == funDict @@ ("tpm" :> tpm(funDict))

WithCopyNumber(funDict) ==
  LET RecA == cog.coverages[RecAKey]
  IN funDict @@ ("copyNumber" :>
       [k \in DOMAIN funDict.coverages |-> VDiv(funDict.coverages[k], RecA)])

\* the end of the file: tpm, copy numbers, return
parse_orf_table_return ==
  /\ pc = "loop"
  /\ pc' = "returned"
  /\ orfs' = WithTpm(orfs)
  /\ LET Finish(funDict, enabled) ==
           LET t == IF enabled THEN WithTpm(funDict) ELSE funDict
           IN IF RecAPresent THEN WithCopyNumber(t) ELSE t
     IN /\ kegg' = Finish(kegg, ~nokegg)
        /\ cog' = Finish(cog, ~nocog)
        /\ pfam' = Finish(pfam, ~nopfam)
        /\ custom' = [m \in DOMAIN custom |-> Finish(custom[m], TRUE)]
  /\ UNCHANGED <<nokegg, nocog, nopfam, trusted_only, ignore_unclassified_fun, orfSet, consumed>>
  /\ UNCHANGED taxvars

TaxIdle ==
  /\ call = "parse_orf_table"
  /\ taxString = <<>>
  /\ ret = <<>>
  /\ tlines = <<>>
  /\ ent_tax = EmptyDict
  /\ ent_tax_wranks = EmptyDict
  /\ ent_abunds = EmptyDict
  /\ tpc = "start"

Init ==
  \* a call switches off at most one of the annotation schemes
  /\ \E off \in {"none", "kegg", "cog", "pfam"} :
       /\ nokegg = (off = "kegg")
       /\ nocog = (off = "cog")
       /\ nopfam = (off = "pfam")
  /\ trusted_only \in BOOLEAN
  /\ ignore_unclassified_fun \in BOOLEAN
  /\ orfSet \in OrfSets
  /\ consumed = <<>>
  /\ orfs = [abundances |-> EmptyDict, bases |-> EmptyDict, coverages |-> EmptyDict,
             copies |-> EmptyDict, lengths |-> EmptyDict]
  /\ kegg = NewFunDict
  /\ cog = NewFunDict
  /\ pfam = [abundances |-> EmptyDict, bases |-> EmptyDict, coverages |-> EmptyDict,
             copies |-> EmptyDict, lengths |-> EmptyDict]
  /\ custom = [m \in Range(custom_methods) |-> NewFunDict]
  /\ pc = "loop"
  /\ TaxIdle

Next ==
  \/ \E l \in InputLines : parse_orf_table_line(l)
  \/ parse_orf_table_return

Spec == Init /\ [][Next]_vars

-----------------------------------------------------------------------------
(* Properties of parse_orf_table *)

ZeroVector == [s \in DOMAIN samples |-> Zero]
Vec(a, b) == <<Int2Num(a), Int2Num(b)>>

\* d[k] of a defaultdict(int), 0 for a key never added
Get(d, k) == IF k \in DOMAIN d THEN d[k] ELSE ZeroVector

\* the five statistic mappings of an aggregate
Statistics(funDict) ==
  <<funDict.abundances, funDict.bases, funDict.coverages, funDict.copies, funDict.lengths>>

\* a step that reads one more data line, and the line it reads
ReadsLine == Len(consumed') = Len(consumed) + 1
lineRead == consumed'[Len(consumed')]
OrfOf(l) == l[idx(<<"ORF ID">>)]

\* the enabled schemes: the column of the ID cell, and whether the scheme is
\* subject to the trusted-only flag
Schemes ==
  (IF nokegg THEN {} ELSE {[col |-> <<"KEGG ID">>, trusted |-> trusted_only]})
  \cup (IF nocog THEN {} ELSE {[col |-> <<"COG ID">>, trusted |-> trusted_only]})
  \cup (IF nopfam THEN {} ELSE {[col |-> <<"PFAM">>, trusted |-> FALSE]})
  \cup {[col |-> m, trusted |-> trusted_only] : m \in DOMAIN custom}

\* the aggregate of a scheme, before and after a step
Aggregate(sch) ==
  CASE sch.col = <<"KEGG ID">> -> kegg
    [] sch.col = <<"COG ID">> -> cog
    [] sch.col = <<"PFAM">> -> pfam
    [] OTHER -> custom[sch.col]
AggregateAfter(sch) ==
  CASE sch.col = <<"KEGG ID">> -> kegg'
    [] sch.col = <<"COG ID">> -> cog'
    [] sch.col = <<"PFAM">> -> pfam'
    [] OTHER -> custom'[sch.col]

\* a row contributes to a scheme unless it is dropped by the restricting set, by
\* a zero length, by the trusted-only rule or by the ignore-unclassified flag
Contributes(l, cell, trusted) ==
  /\ ~(orfSet.supplied /\ orfSet.members # {} /\ OrfOf(l) \notin orfSet.members)
  /\ ~(l[idx(<<"Length NT">>)] \in {<<>>, <<"0">>})
  /\ ~(trusted /\ cell # <<>> /\ cell[Len(cell)] # "*")
  /\ ~(ignore_unclassified_fun /\ Remove(cell, "*") = <<>>)

RECURSIVE ContributedAbundance(_, _, _)
ContributedAbundance(rows, col, trusted) ==
  IF rows = <<>> THEN ZeroVector
  ELSE LET l == Head(rows)
           rest == ContributedAbundance(Tail(rows), col, trusted)
       IN IF Contributes(l, l[idx(col)], trusted) THEN VAdd(abundances(l), rest) ELSE rest

\* C1: in every enabled scheme and every sample, the abundances of all function
\* IDs add up to the abundances of the rows that contributed to the scheme,
\* whatever the number of IDs in each row's cell.
C1_Conservation ==
  \A sch \in Schemes :
    SumDict(Aggregate(sch).abundances, DOMAIN Aggregate(sch).abundances)
      = ContributedAbundance(consumed, sch.col, sch.trusted)

\* two rows have contributed to KEGG, one of them with three IDs and an
\* abundance that three does not divide
C1_Witness ==
  /\ ~nokegg
  /\ Len(consumed) = 2
  /\ \A i \in 1..2 : Contributes(consumed[i], consumed[i][idx(<<"KEGG ID">>)], trusted_only)
  /\ \E i \in 1..2 : /\ Len(FunsOf(consumed[i][idx(<<"KEGG ID">>)])) = 3
                     /\ abundances(consumed[i])[1] = Int2Num(10)
  /\ <<"K00003">> \in DOMAIN kegg.abundances

SplitExample == MkLine(<<"orf1">>, Length300, Confirmed, OneSample)

\* C2: a row that is added to a scheme increases the record of each of the n
\* function IDs of its cell by abundance/n, bases/n and length/n, and by the
\* undivided copies vector; the cell "K00001*;K00002*" with abundance [10, 0]
\* and length 300 gives K00001 and K00002 abundance [5, 0], copies [1, 0] and
\* length [150, 0].
C2_SplitRule ==
  [][ReadsLine =>
       LET l == lineRead IN
       /\ \A sch \in Schemes :
            LET cell == l[idx(sch.col)]
                funs == FunsOf(cell)
                n == Len(funs)
                old == Aggregate(sch)
                new == AggregateAfter(sch)
            IN Contributes(l, cell, sch.trusted) =>
                 \A i \in DOMAIN funs :
                   /\ new.abundances[funs[i]]
                        = VAdd(Get(old.abundances, funs[i]), VDivScalar(abundances(l), n))
                   /\ new.bases[funs[i]]
                        = VAdd(Get(old.bases, funs[i]), VDivScalar(bases(l), n))
                   /\ new.lengths[funs[i]]
                        = VAdd(Get(old.lengths, funs[i]), VDivScalar(lengths(l), n))
                   /\ new.copies[funs[i]] = VAdd(Get(old.copies, funs[i]), copies(l))
       /\ (consumed = <<>> /\ l = SplitExample /\ ~nokegg) =>
            \A fun \in {<<"K00001">>, <<"K00002">>} :
              /\ kegg'.abundances[fun] = Vec(5, 0)
              /\ kegg'.copies[fun] = Vec(1, 0)
              /\ kegg'.lengths[fun] = Vec(150, 0)
     ]_vars

\* the example row has been added to KEGG on top of an earlier row
C2_Witness ==
  /\ ~nokegg
  /\ Len(consumed) = 2
  /\ line = SplitExample
  /\ <<"K00003">> \in DOMAIN kegg.abundances
  /\ kegg.copies[<<"K00001">>] = Vec(2, 0)

NoCopyNumber ==
  \A d \in {kegg, cog, pfam} \cup Range(custom) : "copyNumber" \notin DOMAIN d

\* the COG0468 aggregate has coverage zero in every sample: it never appears,
\* or every row that contributed to it has zero coverage
RecACoverageZero ==
  \/ RecAKey \notin DOMAIN cog.coverages
  \/ cog.coverages[RecAKey] = ZeroVector

\* C3: when the COG0468 aggregate has coverage zero in every sample,
\* parse_orf_table returns and no scheme carries a copyNumber mapping.
C3_OmittedAtZeroCoverage == (pc = "returned" /\ RecACoverageZero) => NoCopyNumber

\* C4: no tpm mapping returned holds a not-a-number value.
C4_NoNaN ==
  pc = "returned" =>
    \A d \in {orfs, kegg, cog, pfam} \cup Range(custom) :
      "tpm" \in DOMAIN d =>
        \A k \in DOMAIN d.tpm : \A s \in DOMAIN d.tpm[k] : ~isnan(d.tpm[k][s])

Unmarked(cell) == cell # <<>> /\ "*" \notin Range(cell)

\* C5 as stated: with the trusted-only flag, a row whose raw cell for an
\* enabled scheme (PFAM included) is non-empty and carries no asterisk adds
\* nothing to the five statistics of that scheme.
C5_Original ==
  [][(ReadsLine /\ trusted_only) =>
       \A sch \in Schemes :
         Unmarked(lineRead[idx(sch.col)])
           => Statistics(AggregateAfter(sch)) = Statistics(Aggregate(sch))
     ]_vars

\* C5 as amended: the rule holds for KEGG, COG and every custom scheme; PFAM
\* is exempt: a row that is not skipped has the IDs of its PFAM cell added to
\* PFAM whether or not the cell carries an asterisk.
C5_TrustedOnly ==
  [][(ReadsLine /\ trusted_only) =>
       \A sch \in Schemes :
         Unmarked(lineRead[idx(sch.col)]) =>
           IF sch.col # <<"PFAM">>
           THEN Statistics(AggregateAfter(sch)) = Statistics(Aggregate(sch))
           ELSE Contributes(lineRead, lineRead[idx(sch.col)], FALSE) =>
                  \A fun \in Range(FunsOf(lineRead[idx(sch.col)])) :
                    /\ fun \in DOMAIN pfam'.copies
                    /\ pfam'.copies[fun] = VAdd(Get(pfam.copies, fun), copies(lineRead))
     ]_vars

UnconfirmedLine == MkLine(<<"orf1">>, Length300, Unconfirmed, TwoSamples)

\* an unconfirmed row was read, under trusted-only, after a confirmed row had
\* been added to KEGG, COG and the custom scheme
C5_Witness ==
  /\ trusted_only /\ ~nokegg /\ ~nocog /\ ~nopfam
  /\ ~orfSet.supplied
  /\ Len(consumed) = 2
  /\ consumed[1] = SplitExample
  /\ line = UnconfirmedLine
  /\ kegg.copies[<<"K00001">>] = Vec(1, 0)
  /\ cog.copies[<<"COG0468">>] = Vec(1, 0)
  /\ custom[<<"MYDB">>].copies[<<"X1">>] = Vec(1, 0)

ZeroOrEmptyLength(l) ==
  \/ l[idx(<<"Length NT">>)] = <<>>
  \/ int(l[idx(<<"Length NT">>)]) = 0

\* C6: a data row whose 'Length NT' is 0 or empty leaves the ORF record and
\* every scheme (statistics and info table) as they were, and the loop goes on.
C6_ZeroLength ==
  [][(ReadsLine /\ ZeroOrEmptyLength(lineRead)) =>
       /\ UNCHANGED <<orfs, kegg, cog, pfam, custom>>
       /\ pc' = "loop"
     ]_vars

\* a row with 'Length NT' 0 was read after a row that was added, and left
\* the aggregates of that row in place
C6_Witness ==
  /\ ~nokegg
  /\ pc = "loop"
  /\ Len(consumed) = 2
  /\ line[idx(<<"Length NT">>)] = <<"0">>
  /\ DOMAIN orfs.abundances = {<<"orf1">>}
  /\ <<"K00003">> \in DOMAIN kegg.abundances

\* C7: whenever a restricting set is supplied, the empty set included, a row
\* whose ORF ID is not in the set changes no ORF-level or scheme-level record.
C7_RestrictingSet ==
  [][(ReadsLine /\ orfSet.supplied /\ OrfOf(lineRead) \notin orfSet.members) =>
       UNCHANGED <<orfs, kegg, cog, pfam, custom>>
     ]_vars

-----------------------------------------------------------------------------
(* parse_tax_string *)

TAXRANKS == <<"superkingdom", "phylum", "class", "order", "family", "genus", "species">>
TAXRANKS_SHORT == <<"k", "p", "c", "o", "f", "g", "s">>

\* [r.split('_', 1) for r in taxString.strip(';').split(';')]
RankPairs(str) ==
  LET toks == Split(Strip(str, {";"}), ";")
  IN [i \in DOMAIN toks |-> Split1(toks[i], "_")]

\* dict(pairs) raises ValueError when an element is not a pair
RaisesValueError(str) == \E i \in DOMAIN RankPairs(str) : Len(RankPairs(str)[i]) # 2

\* dict(pairs): a later pair replaces an earlier one with the same key
RECURSIVE MkDict(_, _, _)
MkDict(pairs, i, d) ==
  IF i > Len(pairs) THEN d
  ELSE MkDict(pairs, i + 1, DictSet(d, pairs[i][1], pairs[i][2]))

\* '{} (no {} in NCBI)'.format(name, rank): the placeholder with the name of
\* the rank just above instead of the last rank found below
InheritedFromAbove(taxDict, lastRankFound, i) ==
  (IF i > 1 /\ <<TAXRANKS_SHORT[i - 1]>> \in DOMAIN taxDict
   THEN taxDict[<<TAXRANKS_SHORT[i - 1]>>] ELSE taxDict[lastRankFound])
    \o <<" (no ", TAXRANKS[i], " in NCBI)">>

\* '{} (no {} in NCBI)'.format(taxDict[lastRankFound], TAXRANKS[TAXRANKS_SHORT.index(rank)])
Inherited(taxDict, lastRankFound, i) ==
  taxDict[lastRankFound] \o <<" (no ", TAXRANKS[i], " in NCBI)">>

\* "for rank in reversed(TAXRANKS_SHORT)", from rank number i down to 1
RECURSIVE WalkRanks(_, _, _, _)
WalkRanks(taxDict, i, taxList, lastRankFound) ==
  IF i = 0 THEN taxList
  ELSE LET rank == <<TAXRANKS_SHORT[i]>> IN
       IF rank \in DOMAIN taxDict
       THEN WalkRanks(taxDict, i - 1, Append(taxList, taxDict[rank]), rank)
       ELSE IF lastRankFound # <<>>
       THEN WalkRanks(taxDict, i - 1,
                      Append(taxList, Inherited(taxDict, lastRankFound, i)), lastRankFound)
       ELSE WalkRanks(taxDict, i - 1, taxList, lastRankFound)

\* "while len(taxList) < 7: taxList.insert(0, unclassString)", then reverse()
PadAndReverse(taxList) ==
  LET unclassString == IF taxList # <<>> THEN <<"Unclassified", " ">> \o taxList[1]
                       ELSE Unclassified
      padded == IF Len(taxList) < 7
                THEN [i \in 1..(7 - Len(taxList)) |-> unclassString] \o taxList
                ELSE taxList
  IN [i \in DOMAIN padded |-> padded[Len(padded) + 1 - i]]

\* the cumulative rank-prefixed strings
RECURSIVE WithRanks(_, _)
WithRanks(taxList, i) ==
  LET newStr == <<TAXRANKS_SHORT[i], "_">> \o taxList[i]
  IN IF i = 1 THEN <<newStr>>
     ELSE LET before == WithRanks(taxList, i - 1)
          IN Append(before, before[i - 1] \o <<";">> \o newStr)

\* the value parse_tax_string returns when it does not raise
parse_tax_string(str) ==
  LET taxDict == MkDict(RankPairs(str), 1, EmptyDict)
      taxList == PadAndReverse(WalkRanks(taxDict, Len(TAXRANKS_SHORT), <<>>, <<>>))
  IN [taxList |-> taxList, taxList_wranks |-> WithRanks(taxList, Len(TAXRANKS_SHORT))]

\* the tokens a taxonomy string of the model is made of
TaxTokens ==
  { <<"k", "_", "Bacteria">>, <<"p", "_", "Proteobacteria">>, <<"s", "_", "E.coli">>,
    <<"n", "_", "Unclassified">>, <<"No consensus">> }

\* all strings of at most n tokens joined by semicolons, the empty string included
TaxStrings(n) ==
  {Join(toks, ";") : toks \in UNION {[1..k -> TaxTokens] : k \in 0..n}}

\* a direct call parse_tax_string(taxString)
parse_tax_string_call ==
  /\ call = "parse_tax_string"
  /\ tpc = "start"
  /\ IF RaisesValueError(taxString)
     THEN tpc' = "raised" /\ ret' = ret
     ELSE tpc' = "returned" /\ ret' = <<parse_tax_string(taxString)>>
  /\ UNCHANGED <<call, taxString, tlines, ent_tax, ent_tax_wranks, ent_abunds>>
  /\ UNCHANGED orfvars

-----------------------------------------------------------------------------
(* parse_tax_table, parse_contig_table, parse_bin_table *)

Whitespace == {" ", "\t", "\n"}

\* line.strip().split('\t')
Cells(raw) == Split(Strip(raw, Whitespace), "\t")

tax_header == << <<"ORF">>, <<"Tax">> >>
contig_header ==
  << <<"Contig ID">>, <<"Tax">>, <<"Length">>,
     <<"Raw read count", " ", "S1">>, <<"Raw read count", " ", "S2">> >>
bin_header ==
  << <<"Bin ID">>, <<"Tax">>, <<"Length">>, <<"TPM", " ", "S1">>, <<"TPM", " ", "S2">> >>

\* idx[h] for the header of a table
idxIn(hdr, h) == CHOOSE i \in DOMAIN hdr : hdr[i] = h

\* array([int(line[idx[sample]]) for sample in samples]); the TPM cells of the
\* bin tables of the model are whole numbers, so float() reads them as int() does
SampleArray(hdr, label, cells) ==
  LET cols == SelectSeq(hdr, LAMBDA h : label \in Range(h))
  IN [s \in DOMAIN cols |-> Int2Num(int(cells[idxIn(hdr, cols[s])]))]

\* the mock taxonomy of an entity with no classification
MockTax == <<"n", "_", "Unclassified">>

\* the taxonomy fields of the tables of the model
TaxFields ==
  { <<>>, <<"No consensus">>,
    <<"k", "_", "Bacteria", ";", "p", "_", "Proteobacteria">> }

EntityIds == {<<"e1">>, <<"e2">>}

\* the text of a line of a tax table: "orf<TAB>tax<NL>", or "orf<NL>" with no
\* taxonomy field at all
TaxTableLines ==
  {id \o <<"\t">> \o tax \o <<"\n">> : id \in EntityIds, tax \in TaxFields}
  \cup {id \o <<"\n">> : id \in EntityIds}

\* the text of a line of a contig or bin table
CountTableLines ==
  {Join(<<id, tax, <<"9", "0", "0">>, c[1], c[2]>>, "\t") \o <<"\n">> :
     id \in EntityIds, tax \in TaxFields,
     c \in { << <<"0">>, <<"7">> >>, << <<"1", "2">>, <<"5">> >> }}

\* what one iteration of a reader's loop does with the taxonomy string and the
\* array of its line: the three dictionaries are filled, or parse_tax_string
\* raises and the reader ends with the exception
Resolve(entity, tax, hasArray, arr) ==
  IF RaisesValueError(tax)
  THEN /\ tpc' = "raised"
       /\ UNCHANGED <<ent_tax, ent_tax_wranks, ent_abunds>>
  ELSE /\ tpc' = "loop"
       /\ ent_tax' = DictSet(ent_tax, entity, parse_tax_string(tax).taxList)
       /\ ent_tax_wranks' = DictSet(ent_tax_wranks, entity, parse_tax_string(tax).taxList_wranks)
       /\ ent_abunds' = IF hasArray THEN DictSet(ent_abunds, entity, arr) ELSE ent_abunds

parse_tax_table_line(raw) ==
  /\ call = "parse_tax_table"
  /\ tpc = "loop"
  /\ Len(tlines) < MaxTaxRows
  /\ tlines' = Append(tlines, raw)
  /\ LET l == Cells(raw)
         orf == l[1]
         tax == IF Len(l) = 1 THEN MockTax ELSE l[2]
     IN Resolve(orf, tax, FALSE, <<>>)
  /\ UNCHANGED <<call, taxString, ret>>
  /\ UNCHANGED orfvars

parse_contig_table_line(raw) ==
  /\ call = "parse_contig_table"
  /\ tpc = "loop"
  /\ Len(tlines) < MaxTaxRows
  /\ tlines' = Append(tlines, raw)
  /\ LET l == Cells(raw)
         contig == l[idxIn(contig_header, <<"Contig ID">>)]
         field == l[idxIn(contig_header, <<"Tax">>)]
         tax == IF field = <<>> THEN MockTax ELSE field
     IN Resolve(contig, tax, TRUE, SampleArray(contig_header, "Raw read count", l))
  /\ UNCHANGED <<call, taxString, ret>>
  /\ UNCHANGED orfvars

parse_bin_table_line(raw) ==
  /\ call = "parse_bin_table"
  /\ tpc = "loop"
  /\ Len(tlines) < MaxTaxRows
  /\ tlines' = Append(tlines, raw)
  /\ LET l == Cells(raw)
         bin == l[idxIn(bin_header, <<"Bin ID">>)]
         field == l[idxIn(bin_header, <<"Tax">>)]
         tax == IF field = <<>> \/ field = <<"No consensus">> THEN MockTax ELSE field
     IN Resolve(bin, tax, TRUE, SampleArray(bin_header, "TPM", l))
  /\ UNCHANGED <<call, taxString, ret>>
  /\ UNCHANGED orfvars

\* the end of the table: the dictionaries are returned
reader_return ==
  /\ call \in {"parse_tax_table", "parse_contig_table", "parse_bin_table"}
  /\ tpc = "loop"
  /\ tpc' = "returned"
  /\ UNCHANGED <<call, taxString, ret, tlines, ent_tax, ent_tax_wranks, ent_abunds>>
  /\ UNCHANGED orfvars

OrfIdle ==
  /\ nokegg = FALSE /\ nocog = FALSE /\ nopfam = FALSE
  /\ trusted_only = FALSE /\ ignore_unclassified_fun = FALSE
  /\ orfSet = None
  /\ consumed = <<>>
  /\ orfs = EmptyDict /\ kegg = EmptyDict /\ cog = EmptyDict /\ pfam = EmptyDict
  /\ custom = EmptyDict
  /\ pc = "idle"

InitTax ==
  /\ OrfIdle
  /\ tlines = <<>>
  /\ ent_tax = EmptyDict
  /\ ent_tax_wranks = EmptyDict
  /\ ent_abunds = EmptyDict
  /\ ret = <<>>
  /\ \/ /\ call = "parse_tax_string"
        /\ taxString \in TaxStrings(MaxTokens)
        /\ tpc = "start"
     \/ /\ call \in {"parse_tax_table", "parse_contig_table", "parse_bin_table"}
        /\ taxString = <<>>
        /\ tpc = "loop"

NextTax ==
  \/ parse_tax_string_call
  \/ \E raw \in TaxTableLines : parse_tax_table_line(raw)
  \/ \E raw \in CountTableLines : parse_contig_table_line(raw)
  \/ \E raw \in CountTableLines : parse_bin_table_line(raw)
  \/ reader_return

SpecTax == InitTax /\ [][NextTax]_vars

-----------------------------------------------------------------------------
(* Properties of parse_tax_string and of the table readers *)

Bacteria == <<"Bacteria">>
Proteobacteria == <<"Proteobacteria">>
Ecoli == <<"E.coli">>
RoundTripExample ==
  <<"k", "_", "Bacteria", ";", "p", "_", "Proteobacteria", ";", "s", "_", "E.coli">>

\* C8 as stated: the example string parses to a list whose missing ranks carry
\* the name Proteobacteria.
C8_Original ==
  (call = "parse_tax_string" /\ taxString = RoundTripExample /\ tpc # "start") =>
    /\ tpc = "returned"
    /\ ret[1].taxList =
         << Bacteria, Proteobacteria,
            Proteobacteria \o <<" (no ", "class", " in NCBI)">>,
            Proteobacteria \o <<" (no ", "order", " in NCBI)">>,
            Proteobacteria \o <<" (no ", "family", " in NCBI)">>,
            Proteobacteria \o <<" (no ", "genus", " in NCBI)">>,
            Ecoli >>

\* C8 as amended: the example string parses to the 7-element list in which
\* each missing rank carries the name of the nearest lower rank that was found,
\* here E.coli.
C8_InheritedRanks ==
  (call = "parse_tax_string" /\ taxString = RoundTripExample /\ tpc # "start") =>
    /\ tpc = "returned"
    /\ ret[1].taxList =
         << Bacteria, Proteobacteria,
            Ecoli \o <<" (no ", "class", " in NCBI)">>,
            Ecoli \o <<" (no ", "order", " in NCBI)">>,
            Ecoli \o <<" (no ", "family", " in NCBI)">>,
            Ecoli \o <<" (no ", "genus", " in NCBI)">>,
            Ecoli >>

\* the example string has been parsed
C8_Witness ==
  /\ call = "parse_tax_string"
  /\ taxString = RoundTripExample
  /\ tpc = "returned"
  /\ Len(ret[1].taxList) = 7

\* no token of the string names one of the seven ranks
NoParseableRank(str) ==
  \A i \in DOMAIN RankPairs(str) :
    ~(Len(RankPairs(str)[i]) = 2 /\ \E r \in Range(TAXRANKS_SHORT) : RankPairs(str)[i][1] = <<r>>)

AllUnclassified == [i \in 1..7 |-> Unclassified]

\* C9: parse_tax_string of the empty string, or of a string with no parseable
\* rank token, returns seven entries "Unclassified" and does not fail.
C9_EmptyString ==
  (call = "parse_tax_string" /\ tpc # "start" /\ NoParseableRank(taxString)) =>
    /\ tpc = "returned"
    /\ ret[1].taxList = AllUnclassified

\* the taxonomy field of a line of a table: <<>> when it is missing or empty
FieldOf(raw) ==
  LET l == Split(RStrip(raw, {"\n"}), "\t") IN IF Len(l) < 2 THEN <<>> ELSE l[2]

\* C10: in each reader, the last line read, when its taxonomy field is missing,
\* empty or "No consensus", was read without failure and its entity has the
\* fully unclassified taxonomy, with its abundance vector recorded.
C10_Unclassified ==
  (call \in {"parse_tax_table", "parse_contig_table", "parse_bin_table"} /\ tlines # <<>>) =>
    LET raw == tlines[Len(tlines)]
        entity == <<raw[1]>>
    IN FieldOf(raw) \in {<<>>, <<"No consensus">>} =>
         /\ tpc # "raised"
         /\ entity \in DOMAIN ent_tax
         /\ ent_tax[entity] = AllUnclassified
         /\ call # "parse_tax_table" => entity \in DOMAIN ent_abunds

====
